---------------------------- MODULE Spec2Model ----------------------------
(***************************************************************************)
(* A model of src/main.rs of s3-stress: one operation chosen at the        *)
(* operation_select prompt ("Cleanup bucket" or "Create objects") running  *)
(* against an S3 bucket, with the tokio tasks it spawns.                   *)
(*                                                                         *)
(* Object keys are the naturals 1, 2, ... in S3's listing order.  An       *)
(* Option<T> is a sequence of length 0 (None) or 1 (Some).                 *)
(***************************************************************************)
EXTENDS Naturals, Sequences, FiniteSets

(* ------------------------------ bounds --------------------------------- *)

\* Largest number of objects the bucket holds when the operation starts.
MaxObjects == 5

\* max_keys of the listing request.  main.rs:161 asks for 20; the model runs
\* the same loop with a small page so that several pages fit in MaxObjects.
MaxKeys == 2

\* Largest object count entered at the "How many objects" prompt.
MaxCount == 2

\* Largest number of put_object requests that fail in one run.
MaxPutFailures == 1

\* The number of create_object tasks spawned (for _ in 1..=16).
Workers == 16

(* ------------------------------ values --------------------------------- *)

None == << >>

Some(x) == << x >>

unwrap(o) == o[1]

\* The buckets of the account, as select_bucket offers them.
Buckets == {"bucket-a", "bucket-b"}

Min(S) == CHOOSE x \in S : \A y \in S : x <= y

\* The keys of S in listing (ascending) order.
RECURSIVE Sorted(_)
Sorted(S) == IF S = {} THEN << >> ELSE << Min(S) >> \o Sorted(S \ {Min(S)})

Prefix(s, n) == SubSeq(s, 1, IF n < Len(s) THEN n ELSE Len(s))

Range(s) == {s[i] : i \in 1..Len(s)}

(* ------------------------- the object store ---------------------------- *)

\* ListObjectsV2 as the program consumes it: at most max_keys keys after the
\* continuation point, in key order; contents is absent when no key is
\* returned; next_continuation_token is present exactly when keys remain.
ListObjectsV2(objects, continuation_token, max_keys) ==
    LET after == IF continuation_token = None THEN objects
                 ELSE {k \in objects : k > unwrap(continuation_token)}
        page  == Prefix(Sorted(after), max_keys)
    IN  [contents  |-> IF page = << >> THEN None ELSE Some(page),
         key_count |-> Some(Len(page)),
         next_continuation_token |->
             IF Cardinality(after) > max_keys THEN Some(page[Len(page)])
             ELSE None]

\* DeleteObject: a successful request removes the key, a failed one does not.
DeleteObject(st, bucket, key, ok) ==
    IF ok THEN [st EXCEPT ![bucket] = @ \ {key}] ELSE st

\* PutObject: a successful request stores the key, a failed one does not.
PutObject(st, bucket, key, ok) ==
    IF ok THEN [st EXCEPT ![bucket] = @ \cup {key}] ELSE st

(* ------------------------------ state ---------------------------------- *)

VARIABLES
    operation,        \* selected_operation
    bucket_name,      \* the bucket chosen by select_bucket
    store,            \* the object store: bucket -> set of keys
    initial,          \* the keys of the chosen bucket when the operation began
    alive,            \* the process is running
    pc,               \* where the operation's own control flow stands
    page_token,       \* operation_cleanup_bucket: page_token
    list_calls,       \* listing requests sent so far
    list_failed,      \* a listing request has failed
    pages,            \* the listing responses received, in order
    delete_tasks,     \* operation_cleanup_bucket: delete_tasks
    object_count,     \* operation_create_objects: object_count
    join_handle_list, \* create_object tasks: puts issued -> number of tasks
    put_attempts,     \* put_object requests sent so far
    put_failed        \* put_object requests that failed

vars == << operation, bucket_name, store, initial, alive, pc, page_token,
           list_calls, list_failed, pages, delete_tasks, object_count,
           join_handle_list, put_attempts, put_failed >>

cleanup_vars == << page_token, list_calls, list_failed, pages, delete_tasks >>

create_vars == << object_count, join_handle_list, put_attempts, put_failed >>

Init ==
    /\ operation \in {"Cleanup bucket", "Create objects"}
    /\ bucket_name \in Buckets
    /\ \E total \in 0..MaxObjects :
          /\ store = [b \in Buckets |->
                        IF b = bucket_name THEN 1..total ELSE 1..MaxObjects]
          /\ initial = 1..total
    /\ alive = TRUE
    /\ pc = IF operation = "Cleanup bucket" THEN "loop" ELSE "spawn"
    /\ page_token = None
    /\ list_calls = 0
    /\ list_failed = FALSE
    /\ pages = << >>
    /\ delete_tasks = << >>
    /\ object_count \in
          IF operation = "Create objects" THEN 0..MaxCount ELSE {0}
    /\ join_handle_list = [k \in 0..object_count |-> 0]
    /\ put_attempts = 0
    /\ put_failed = 0

(* ------------------- operation_cleanup_bucket -------------------------- *)

CleanupRunning == alive /\ operation = "Cleanup bucket"

\* The loop is suspended only on the listing request (send().await).
LoopReadyJoined ==
    /\ pc = "loop"
    /\ \A i \in 1..Len(delete_tasks) : delete_tasks[i].pc \in {"done", "panicked"}

LoopReady == pc = "loop"

\* continuation_token is set on the request only when page_token is present.
ContinuationTokenNever(token) == None

ContinuationToken(token) ==
    IF token # None THEN Some(unwrap(token)) ELSE None

\* if page_token == None { break; }
LoopBreakAlways(token) == TRUE

LoopBreak(token) == token = None

\* page_token = object_list.next_continuation_token.clone()
NextPageTokenDropped(object_list) == None

NextPageToken(object_list) == object_list.next_continuation_token

\* tokio::spawn(delete_objects(s3_client.clone(), bucket_name.clone(), object_list))
SpawnDeleteObjects(bucket, object_list) ==
    [object_list |-> object_list,
     bucket_name |-> bucket,
     pc          |-> "spawned",
     rest        |-> << >>,
     sent        |-> << >>,
     failed      |-> {}]

\* One iteration of the loop whose listing request succeeds.
CleanupListPage ==
    /\ CleanupRunning
    /\ LoopReady
    /\ LET object_list == ListObjectsV2(store[bucket_name],
                                        ContinuationToken(page_token), MaxKeys)
           token == NextPageToken(object_list)
       IN  /\ page_token' = token
           /\ pages' = Append(pages, object_list)
           /\ delete_tasks' =
                 Append(delete_tasks, SpawnDeleteObjects(bucket_name, object_list))
           /\ pc' = IF LoopBreak(token) THEN "exit" ELSE "loop"
    /\ list_calls' = list_calls + 1
    /\ UNCHANGED << operation, bucket_name, store, initial, alive, list_failed >>
    /\ UNCHANGED create_vars

\* object_query.send().await.unwrap() on a failed request: the panic unwinds
\* out of operation_cleanup_bucket and out of main.
ListErrorRetried == "loop"

ListErrorOutcome == "panicked"

CleanupListFailed ==
    /\ CleanupRunning
    /\ LoopReady
    /\ list_calls' = list_calls + 1
    /\ list_failed' = TRUE
    /\ pc' = ListErrorOutcome
    /\ UNCHANGED << operation, bucket_name, store, initial, alive, page_token,
                    pages, delete_tasks >>
    /\ UNCHANGED create_vars

\* After the loop: join_all(delete_tasks) is commented out, the function
\* returns and the JoinHandles are dropped, which detaches the tasks.
ReturnReady == pc = "exit"

DropAborts(tasks) ==
    [i \in 1..Len(tasks) |->
        IF tasks[i].pc \in {"done", "panicked"} THEN tasks[i]
        ELSE [tasks[i] EXCEPT !.pc = "aborted"]]

DropJoinHandles(tasks) == tasks

CleanupReturn ==
    /\ CleanupRunning
    /\ ReturnReady
    /\ pc' = "returned"
    /\ delete_tasks' = DropJoinHandles(delete_tasks)
    /\ UNCHANGED << operation, bucket_name, store, initial, alive, page_token,
                    list_calls, list_failed, pages >>
    /\ UNCHANGED create_vars

(* --------------------------- delete_objects ---------------------------- *)

\* for object in object_list.contents.unwrap(): the unwrap, and the iterator.
DeleteObjectsStart(i) ==
    /\ CleanupRunning
    /\ i \in 1..Len(delete_tasks)
    /\ delete_tasks[i].pc = "spawned"
    /\ LET t == delete_tasks[i]
           contents == t.object_list.contents
       IN  delete_tasks' = [delete_tasks EXCEPT ![i] =
              IF contents = None THEN [t EXCEPT !.pc = "panicked"]
              ELSE [t EXCEPT !.rest = unwrap(contents),
                             !.pc = IF unwrap(contents) = << >> THEN "done"
                                    ELSE "loop"]]
    /\ UNCHANGED << operation, bucket_name, store, initial, alive, pc,
                    page_token, list_calls, list_failed, pages >>
    /\ UNCHANGED create_vars

\* The task after its delete_object request for key came back: the result is
\* bound to _delete_result and the loop goes on to the next object.
AfterDeleteAbort(t, key, ok) ==
    IF ok
    THEN [t EXCEPT !.sent = Append(@, key), !.rest = Tail(@),
                   !.pc = IF Tail(t.rest) = << >> THEN "done" ELSE "loop"]
    ELSE [t EXCEPT !.sent = Append(@, key), !.failed = @ \cup {key},
                   !.pc = "panicked"]

AfterDelete(t, key, ok) ==
    [t EXCEPT !.sent   = Append(@, key),
              !.failed = IF ok THEN @ ELSE @ \cup {key},
              !.rest   = Tail(@),
              !.pc     = IF Tail(t.rest) = << >> THEN "done" ELSE "loop"]

DeleteObjectsNext(i) ==
    /\ CleanupRunning
    /\ i \in 1..Len(delete_tasks)
    /\ delete_tasks[i].pc = "loop"
    /\ \E ok \in BOOLEAN :
          LET t == delete_tasks[i]
              key == Head(t.rest)
          IN  /\ store' = DeleteObject(store, t.bucket_name, key, ok)
              /\ delete_tasks' = [delete_tasks EXCEPT ![i] = AfterDelete(t, key, ok)]
    /\ UNCHANGED << operation, bucket_name, initial, alive, pc, page_token,
                    list_calls, list_failed, pages >>
    /\ UNCHANGED create_vars

(* ---------------------- operation_create_objects ----------------------- *)

CreateRunning == alive /\ operation = "Create objects"

RECURSIVE SumUpTo(_, _)
SumUpTo(f, k) == IF k = 0 THEN f[0] ELSE f[k] + SumUpTo(f, k - 1)

\* The number of create_object tasks spawned so far.
Spawned == SumUpTo(join_handle_list, object_count)

\* uuid::Uuid::new_v4(): a key no object has yet.
FreshKey(st) ==
    Min({k \in (MaxObjects + 1)..(MaxObjects + Workers * MaxCount + 1) :
            \A b \in Buckets : k \notin st[b]})

\* for _ in 1..=16 { join_handle_list.push(tokio::spawn(create_object(..))) }
CreateObjectsSpawn ==
    /\ CreateRunning
    /\ pc = "spawn"
    /\ join_handle_list' = [join_handle_list EXCEPT ![0] = @ + 1]
    /\ pc' = IF Spawned + 1 = Workers THEN "join" ELSE "spawn"
    /\ UNCHANGED << operation, bucket_name, store, initial, alive, object_count,
                    put_attempts, put_failed >>
    /\ UNCHANGED cleanup_vars

\* One iteration of create_object's loop in a task that has issued k of its
\* object_count puts: a failed put prints a message and the loop goes on.
CreateObjectPut(k) ==
    /\ CreateRunning
    /\ k < object_count
    /\ join_handle_list[k] > 0
    /\ \E ok \in BOOLEAN :
          /\ ok \/ put_failed < MaxPutFailures
          /\ store' = PutObject(store, bucket_name, FreshKey(store), ok)
          /\ put_failed' = IF ok THEN put_failed ELSE put_failed + 1
    /\ join_handle_list' =
          [join_handle_list EXCEPT ![k] = @ - 1, ![k + 1] = @ + 1]
    /\ put_attempts' = put_attempts + 1
    /\ UNCHANGED << operation, bucket_name, initial, alive, pc, object_count >>
    /\ UNCHANGED cleanup_vars

\* join_all(join_handle_list).await completes when every task has finished,
\* that is, has issued all object_count puts.
AllJoinedNoWait == TRUE

AllJoined == join_handle_list[object_count] = Workers

CreateObjectsJoin ==
    /\ CreateRunning
    /\ pc = "join"
    /\ AllJoined
    /\ pc' = "returned"
    /\ UNCHANGED << operation, bucket_name, store, initial, alive >>
    /\ UNCHANGED create_vars
    /\ UNCHANGED cleanup_vars

(* ----------------------------- the process ----------------------------- *)

\* The process ends: the panic of a failed listing unwinds out of main, or
\* the next "Select an operation" prompt is cancelled (prompt().unwrap()).
\* The tokio runtime is dropped and no task runs any further.
ProcessExit ==
    /\ alive
    /\ pc \in {"returned", "panicked"}
    /\ alive' = FALSE
    /\ UNCHANGED << operation, bucket_name, store, initial, pc >>
    /\ UNCHANGED create_vars
    /\ UNCHANGED cleanup_vars

\* The steps of a "Cleanup bucket" run.
CleanupNext ==
    \/ CleanupListPage
    \/ CleanupListFailed
    \/ CleanupReturn
    \/ \E i \in 1..Len(delete_tasks) : DeleteObjectsStart(i)
    \/ \E i \in 1..Len(delete_tasks) : DeleteObjectsNext(i)

Next ==
    \/ CleanupNext
    \/ CreateObjectsSpawn
    \/ \E k \in 0..MaxCount : CreateObjectPut(k)
    \/ CreateObjectsJoin
    \/ ProcessExit

Spec == Init /\ [][Next]_vars

CleanupInit == Init /\ operation = "Cleanup bucket"

\* A "Cleanup bucket" run under the tokio scheduler, which runs every spawned
\* task and the operation's own future as long as the process lives; nothing
\* makes the process keep living.
FairSpec ==
    /\ CleanupInit
    /\ [][CleanupNext \/ ProcessExit]_vars
    /\ WF_vars(CleanupListPage)
    /\ WF_vars(CleanupReturn)
    /\ \A i \in 1..(MaxObjects + 1) :
          /\ WF_vars(DeleteObjectsStart(i))
          /\ WF_vars(DeleteObjectsNext(i))

(* ------------------------------ claims --------------------------------- *)

Cleanup == operation = "Cleanup bucket"

LoopExited == pc \in {"exit", "returned"}

\* ceil(total / page size), and one call for an empty bucket.
ExpectedListCalls ==
    IF initial = {} THEN 1
    ELSE (Cardinality(initial) + MaxKeys - 1) \div MaxKeys

\* The keys of a listing response, in order.
Batch(object_list) ==
    IF object_list.contents = None THEN << >> ELSE unwrap(object_list.contents)

\* The keys returned over all listing pages so far.
PagesKeys == UNION {Range(Batch(pages[i])) : i \in 1..Len(pages)}

NoDuplicates(s) == \A i, j \in 1..Len(s) : s[i] = s[j] => i = j

AnyDeleteFailed == \E i \in 1..Len(delete_tasks) : delete_tasks[i].failed # {}

AllTasksAt(state) ==
    \A i \in 1..Len(delete_tasks) : delete_tasks[i].pc = state

\* C1: a cleanup run whose listings succeed sends exactly ceil(T / P) listing
\* requests (one for an empty bucket) and then leaves the loop: it never sends
\* more, and it is out of the loop exactly when it has sent that many.
C1_ListCalls ==
    Cleanup =>
        /\ list_calls <= ExpectedListCalls
        /\ (LoopExited => list_calls = ExpectedListCalls)
        /\ (pc = "loop" => list_calls < ExpectedListCalls)

C1_Witness ==
    /\ Cleanup
    /\ pc = "returned"
    /\ Cardinality(initial) > 2 * MaxKeys
    /\ Cardinality(initial) % MaxKeys # 0
    /\ list_calls = 3

\* C2: the keys listed are always keys the bucket held at the start, and when
\* the loop has ended they are all of them, whatever the deletion tasks did
\* between the listing calls.
C2_Coverage ==
    Cleanup =>
        /\ PagesKeys \subseteq initial
        /\ (LoopExited => PagesKeys = initial)

C2_Witness ==
    /\ Cleanup
    /\ pc = "exit"
    /\ Len(pages) > 2
    /\ PagesKeys = initial
    /\ \A i \in 1..(Len(delete_tasks) - 1) :
          delete_tasks[i].pc = "done" /\ delete_tasks[i].failed = {}

\* C3: while the process runs, the next listing request can always be sent
\* and the operation can always return, whatever state the deletion tasks
\* are in.
C3_NeverWaits ==
    (Cleanup /\ alive) =>
        /\ (pc = "loop" => ENABLED CleanupListPage)
        /\ (pc = "exit" => ENABLED CleanupReturn)

C3_Witness ==
    /\ Cleanup
    /\ pc = "returned"
    /\ Len(delete_tasks) > 2
    /\ AllTasksAt("spawned")

\* C4: with fair scheduling, a cleanup run ends with every initial key deleted
\* and the bucket empty, unless the process exits, a listing fails or a
\* delete_object request fails.
C4_Drains ==
    <>(\/ ~Cleanup
       \/ ~alive
       \/ list_failed
       \/ AnyDeleteFailed
       \/ (pc = "returned" /\ store[bucket_name] = {}))

C4_Witness ==
    /\ Cleanup
    /\ alive
    /\ ~AnyDeleteFailed
    /\ pc = "returned"
    /\ Len(delete_tasks) > 2
    /\ AllTasksAt("done")
    /\ store[bucket_name] = {}

\* C5: a failed delete_object does not end the task (a task panics only on an
\* absent contents), a finished task has sent one request for every key of
\* its batch, no key is sent twice, and the loop panics only on a listing
\* failure.
C5_DeleteFailureIgnored ==
    Cleanup =>
        /\ \A i \in 1..Len(delete_tasks) :
              LET t == delete_tasks[i]
              IN  /\ t.pc \in {"spawned", "loop", "done", "panicked"}
                  /\ (t.pc = "panicked" => t.object_list.contents = None)
                  /\ (t.pc = "done" => t.sent = Batch(t.object_list))
                  /\ NoDuplicates(t.sent)
        /\ (pc = "panicked" => list_failed)

C5_Witness ==
    /\ Cleanup
    /\ pc = "returned"
    /\ \E i \in 1..Len(delete_tasks) :
          /\ delete_tasks[i].pc = "done"
          /\ Len(delete_tasks[i].sent) > 1
          /\ delete_tasks[i].sent[1] \in delete_tasks[i].failed
          /\ delete_tasks[i].sent[2] \notin delete_tasks[i].failed
    /\ \E j \in 1..Len(delete_tasks) :
          delete_tasks[j].pc = "done" /\ delete_tasks[j].failed = {}

\* C6: a failed listing panics the operation; after it no listing request is
\* sent and no task is spawned, the failed call spawned none, and when the
\* first call failed there is no task and the bucket is untouched.
C6_ListFailureFatal ==
    /\ [](list_failed =>
            /\ pc = "panicked"
            /\ Len(delete_tasks) = list_calls - 1
            /\ (list_calls = 1 =>
                   delete_tasks = << >> /\ store[bucket_name] = initial))
    /\ [][list_failed =>
            /\ list_calls' = list_calls
            /\ pages' = pages
            /\ Len(delete_tasks') = Len(delete_tasks)]_vars

C6_Witness ==
    /\ list_failed
    /\ list_calls = 3
    /\ ~alive
    /\ Len(delete_tasks) = 2
    /\ delete_tasks[1].pc = "done"
    /\ delete_tasks[2].pc = "loop"

\* C7: the number of deletion tasks spawned equals the number of listing
\* responses that returned at least one key.
C7_SpawnOnlyNonEmpty ==
    Cleanup =>
        Len(delete_tasks) =
            Cardinality({i \in 1..Len(pages) : unwrap(pages[i].key_count) > 0})

\* C8: when the first listing response has no key and no next token, the loop
\* ends after that one call and neither the operation nor a task it spawned
\* panics.
C8_EmptyBucketNoPanic ==
    (/\ Cleanup
     /\ Len(pages) > 0
     /\ unwrap(pages[1].key_count) = 0
     /\ pages[1].next_continuation_token = None) =>
        /\ LoopExited
        /\ list_calls = 1
        /\ \A i \in 1..Len(delete_tasks) : delete_tasks[i].pc # "panicked"

\* C9: task i holds page i and the cleanup's bucket, the requests it has sent
\* are the first keys of that page in listing order (all of them once it is
\* done), no key is sent twice by one task or by two, and no other bucket
\* changes.
C9_TaskOwnsOnePage ==
    Cleanup =>
        /\ Len(delete_tasks) = Len(pages)
        /\ \A i \in 1..Len(delete_tasks) :
              LET t == delete_tasks[i]
              IN  /\ t.object_list = pages[i]
                  /\ t.bucket_name = bucket_name
                  /\ Len(t.sent) <= Len(Batch(pages[i]))
                  /\ t.sent = Prefix(Batch(pages[i]), Len(t.sent))
                  /\ (t.pc = "done" => t.sent = Batch(pages[i]))
                  /\ NoDuplicates(t.sent)
        /\ \A i, j \in 1..Len(delete_tasks) :
              i # j => Range(delete_tasks[i].sent) \cap Range(delete_tasks[j].sent) = {}
        /\ \A b \in Buckets \ {bucket_name} : store[b] = 1..MaxObjects

C9_Witness ==
    /\ Cleanup
    /\ Len(delete_tasks) > 2
    /\ AllTasksAt("done")
    /\ UNION {Range(delete_tasks[i].sent) : i \in 1..Len(delete_tasks)} = initial
    /\ AnyDeleteFailed

\* C10: operation_create_objects spawns 16 tasks before it joins, never more,
\* and has returned only when each of the 16 has issued all object_count puts:
\* 16 * object_count requests in all, failed ones included.
C10_CreateJoinsWorkers ==
    operation = "Create objects" =>
        /\ Spawned <= Workers
        /\ put_attempts <= Workers * object_count
        /\ put_failed <= put_attempts
        /\ (pc \in {"join", "returned"} => Spawned = Workers)
        /\ (pc = "returned" =>
               /\ join_handle_list[object_count] = Workers
               /\ put_attempts = Workers * object_count
               /\ Cardinality(store[bucket_name]) =
                     Cardinality(initial) + put_attempts - put_failed)

C10_Witness ==
    /\ operation = "Create objects"
    /\ pc = "returned"
    /\ object_count > 1
    /\ put_failed > 0
    /\ put_attempts = Workers * object_count

=============================================================================
